---- MODULE Spec2Model ----
(***************************************************************************)
(* Coin Collector multiplayer server (src/server.py).                      *)
(*                                                                         *)
(* The server is one asyncio event loop: GameServer.game_loop and one      *)
(* GameServer.handle_client coroutine per connection.  A coroutine runs    *)
(* without interruption from one await to the next, so every action below  *)
(* is the code of one coroutine from one suspension to the next.  The      *)
(* coroutines suspend in asyncio.sleep (the tick, the simulated latency),  *)
(* in the wait for the next inbound message, and in websocket.send when    *)
(* the connection is closing (the send waits for the closing handshake and *)
(* then raises ConnectionClosed).  The peers of the model read what they   *)
(* are sent, so a send on an open connection returns without suspending.   *)
(***************************************************************************)
EXTENDS Integers, Sequences, FiniteSets, TLC

\* ---- program constants (src/server.py:9-18) ----
SCREEN_WIDTH == 600
SCREEN_HEIGHT == 400
PLAYER_SIZE == 30
COIN_SIZE == 20
PLAYER_SPEED == 5
\* 2.5 s, the clock of the model counts tenths of a second
COIN_SPAWN_INTERVAL == 25
MIN_COINS == 3
MAX_COINS == 5
SPRINT_WIN_SCORE == 10

\* ---- bounds of the model ----
\* no coin id at or beyond this one is issued (Spec)
MaxCoinId == 13
\* no coin id at or beyond this one is issued (SpecJoin)
MaxCoinIdJoin == 3
\* no coin id at or beyond this one is issued (SpecMove)
MaxCoinIdMove == 3
\* the client sends no more input messages than this (SpecClient)
MaxInputsSent == 3
\* the display and target coordinates of an entity lie within this many units
\* in the last place of one another (SpecInterp)
MaxUlps == 300
\* the calls of update since the target was last set are counted up to here
\* (SpecInterp)
MaxFrames == 13

\* the websockets that connect during a run, each once; id(websocket), whose
\* string is the player id, is opaque, so they connect in this order
Conns == {1, 2, 3}
\* the websockets that connect under Spec
PairConns == {1, 2}
\* random.randint draws of Player.__init__ that are explored: the first is
\* within COLLISION_DISTANCE of the coins, the second is not
InitPositions == {<<30, 30>>, <<30, 80>>}
\* the draws of Player.__init__ under SpecJoin
JoinPositions == {<<30, 30>>}
\* random.randint draws of Coin.__init__ that are explored
CoinPositions == {<<20, 30>>}
\* (dx, dy) of the input messages that are explored
InputVectors == {<<0, 0>>}
\* the draw of Player.__init__ under SpecMove: the corner of the placement
\* range next to the left and bottom walls
MovePositions == {<<30, 370>>}
\* a dx or dy that is no number (a string, null, a list): data.get stores it
\* as it comes
NotANumber == 999
\* (dx, dy) of the input messages under SpecMove: steps towards the walls,
\* values that no client sends, and a dx that is no number
MoveInputs == {<<0, 0>>, <<-1, 1>>, <<-200, 200>>, <<NotANumber, 0>>}
\* alpha of interpolate, in tenths
AlphaTenths == 3
\* the coordinates of an entity are doubles of one binade, written as their
\* count of units in the last place from a double of even mantissa; the x and
\* the y that the server reports, and the x and the y on display
InterpTargetsX == {0, 1, MaxUlps - 1, MaxUlps}
InterpTargetsY == {0, 8}
InterpDisplaysX == 0..MaxUlps
InterpDisplaysY == {0, 1, 8}
\* modes of the start_game messages that are explored
Modes == {"sprint", "endless"}
\* time that passes from one tick to the next, in tenths of a second
ClockSteps == {0, 26}

\* None, which is no id(websocket)
None == 0

Min2(a, b) == IF a < b THEN a ELSE b
Max2(a, b) == IF a > b THEN a ELSE b

VARIABLES
    players,        \* self.players: insertion-ordered dict, as a sequence of Player
    coins,          \* self.coins: insertion-ordered dict, as a sequence of Coin
    next_coin_id,   \* self.next_coin_id
    game_started,   \* self.game_started
    game_mode,      \* self.game_mode
    winner,         \* self.winner
    since_spawn,    \* time.time() - self.last_coin_spawn, saturated
    player_count,   \* self.player_count
    conn,           \* per websocket: position of its handle_client, open flag, broadcast in progress
    loop,           \* game_loop: position and broadcast in progress
    sent,           \* the messages the last step put on the wire, in order
    client,         \* one CoinCollectorClient (src/client.py): running, connected,
                    \* keys, last_input_sent, and the input messages it has sent (wire)
    observer        \* what the wall clock and the wire have shown: the time since
                    \* coins were last added or the server was made, saturated (age),
                    \* the age at which the scheduled spawn of the last step added
                    \* coins (gap), and the players sent lobby_ready since the
                    \* session last had fewer than two players (lobby_told)

vars == <<players, coins, next_coin_id, game_started, game_mode, winner,
          since_spawn, player_count, conn, loop, sent, client, observer>>

\* the variables of the server
server_vars == <<players, coins, next_coin_id, game_started, game_mode, winner,
                 since_spawn, player_count, conn, loop, sent, observer>>

\* ---- dict helpers ----
Ids(ps) == {ps[i].id : i \in 1..Len(ps)}

IndexOf(ps, id) == IF id \in Ids(ps) THEN CHOOSE i \in 1..Len(ps) : ps[i].id = id ELSE 0

\* del self.players[id]
Delete(ps, id) == SelectSeq(ps, LAMBDA p : p.id # id)

RECURSIVE DeleteAll(_, _)
DeleteAll(ps, ids) ==
    IF ids = <<>> THEN ps ELSE DeleteAll(Delete(ps, Head(ids)), Tail(ids))

\* ---- entities ----
Player(player_id, name, color, pos) ==
    [id |-> player_id, name |-> name, color |-> color, x |-> pos[1], y |-> pos[2],
     score |-> 0, velocity_x |-> 0, velocity_y |-> 0]

PlayerToDict(p) ==
    [id |-> p.id, name |-> p.name, x |-> p.x, y |-> p.y, score |-> p.score, color |-> p.color]

Coin(coin_id, pos) == [id |-> coin_id, x |-> pos[1], y |-> pos[2]]

\* the velocity of p is made of numbers: lines 49-50 raise TypeError otherwise
Numeric(p) == p.velocity_x # NotANumber /\ p.velocity_y # NotANumber

\* update_position without the clamps of lines 53-54
update_position_unclamped(p) ==
    [p EXCEPT !.x = p.x + p.velocity_x * PLAYER_SPEED,
              !.y = p.y + p.velocity_y * PLAYER_SPEED]

\* update_position whose second assignment sees a velocity that was replaced
\* by (0, 0) after the first
update_position_two_velocities(p) ==
    [p EXCEPT
       !.x = Max2(PLAYER_SIZE \div 2,
                  Min2(SCREEN_WIDTH - PLAYER_SIZE \div 2, p.x + p.velocity_x * PLAYER_SPEED))]

update_position(p) ==
    [p EXCEPT
       !.x = Max2(PLAYER_SIZE \div 2,
                  Min2(SCREEN_WIDTH - PLAYER_SIZE \div 2, p.x + p.velocity_x * PLAYER_SPEED)),
       !.y = Max2(PLAYER_SIZE \div 2,
                  Min2(SCREEN_HEIGHT - PLAYER_SIZE \div 2, p.y + p.velocity_y * PLAYER_SPEED))]

\* ---- messages ----
NoMsg ==
    [type |-> "none", mode |-> "", players |-> <<>>, coins |-> <<>>, game_started |-> FALSE,
     winner |-> None, winner_name |-> "", scores |-> <<>>]

\* player_id and player_data of the welcome are carried in winner and players
WelcomeMsg(p) ==
    [NoMsg EXCEPT !.type = "welcome", !.winner = p.id, !.players = <<PlayerToDict(p)>>]

LobbyReadyMsg == [NoMsg EXCEPT !.type = "lobby_ready"]

GameStartMsg(mode) == [NoMsg EXCEPT !.type = "game_start", !.mode = mode]

StateUpdateMsg(ps, cs, started, mode) ==
    [NoMsg EXCEPT !.type = "state_update",
                  !.players = [i \in 1..Len(ps) |-> PlayerToDict(ps[i])],
                  !.coins = cs, !.game_started = started, !.mode = mode]

GameOverMsg(ps, w) ==
    [NoMsg EXCEPT !.type = "game_over", !.winner = w,
                  !.winner_name = ps[IndexOf(ps, w)].name,
                  !.scores = [i \in 1..Len(ps) |->
                                 [id |-> ps[i].id, name |-> ps[i].name, score |-> ps[i].score]]]

\* ---- broadcast: the iteration over self.players.items() with a send per item ----
\* kind: what is being broadcast; used/remaining/seen: the dict iterator
\* (size of the dict when the iteration began, items still expected, keys yielded);
\* disconnected: the list of line 311
NoBcast ==
    [kind |-> "none", msg |-> NoMsg, used |-> 0, remaining |-> 0, seen |-> {},
     disconnected |-> <<>>]

\* the state of broadcast(message) at line 313, before the first item
NewBcast(ps, kind, msg) ==
    [kind |-> kind, msg |-> msg, used |-> Len(ps), remaining |-> Len(ps), seen |-> {},
     disconnected |-> <<>>]

\* next() of the dict iterator: RuntimeError when the dict changed size, or when
\* an entry turns up after `used` entries were yielded; StopIteration at the end
IterNext(ps, b) ==
    LET unseen == {i \in 1..Len(ps) : ps[i].id \notin b.seen} IN
    IF b.used # Len(ps) THEN [out |-> "error", id |-> None]
    ELSE IF unseen = {} THEN [out |-> "stop", id |-> None]
    ELSE IF b.remaining = 0 THEN [out |-> "error", id |-> None]
    ELSE [out |-> "item", id |-> ps[CHOOSE i \in unseen : \A j \in unseen : i <= j].id]

\* one pass of the loop body, lines 313-317: the send to player t; on a closed
\* connection it raises ConnectionClosed and t is appended to disconnected
SendTo(b, cn, t) ==
    [b EXCEPT !.seen = @ \cup {t}, !.remaining = @ - 1,
              !.disconnected = IF cn[t].open THEN @ ELSE Append(@, t)]

\* RunBcast with the state dict of a state_update built anew for each send
RECURSIVE RunBcastFresh(_, _, _, _)
RunBcastFresh(ps, cn, b, out) ==
    LET r == IterNext(ps, b)
        m == IF b.kind = "state_update"
             THEN StateUpdateMsg(ps, coins, game_started, game_mode) ELSE b.msg
    IN IF r.out # "item" THEN [out |-> r.out, b |-> b, sent |-> out]
       ELSE IF cn[r.id].open
            THEN RunBcastFresh(ps, cn, SendTo(b, cn, r.id), Append(out, [to |-> r.id, msg |-> m]))
            ELSE [out |-> "suspend", b |-> SendTo(b, cn, r.id), sent |-> out]

\* lines 313-317 from the state b of the iteration until the coroutine suspends
\* in a send ("suspend"), the iteration ends ("stop") or next() raises ("error");
\* out collects the messages sent
RECURSIVE RunBcast(_, _, _, _)
RunBcast(ps, cn, b, out) ==
    LET r == IterNext(ps, b) IN
    IF r.out # "item" THEN [out |-> r.out, b |-> b, sent |-> out]
    ELSE IF cn[r.id].open
         THEN RunBcast(ps, cn, SendTo(b, cn, r.id),
                       Append(out, [to |-> r.id, msg |-> b.msg]))
         ELSE [out |-> "suspend", b |-> SendTo(b, cn, r.id), sent |-> out]

\* lines 319-322
Cleanup(ps, b) == DeleteAll(ps, b.disconnected)

\* ---- coins and collisions ----
\* distance < COLLISION_DISTANCE with COLLISION_DISTANCE = (PLAYER_SIZE + COIN_SIZE) / 2,
\* both sides squared and multiplied by 4
InRange(p, c) ==
    4 * ((p.x - c.x) * (p.x - c.x) + (p.y - c.y) * (p.y - c.y))
        < (PLAYER_SIZE + COIN_SIZE) * (PLAYER_SIZE + COIN_SIZE)

\* FirstHit with the players scanned from the last to the first
LastHit(ps, c) ==
    LET hits == {i \in 1..Len(ps) : InRange(ps[i], c)} IN
    IF hits = {} THEN 0 ELSE CHOOSE i \in hits : \A j \in hits : i >= j

\* the inner loop of check_collisions: the first player, in dict order, within
\* range of the coin (0: none); the break of line 230 ends the inner loop there
FirstHit(ps, c) ==
    LET hits == {i \in 1..Len(ps) : InRange(ps[i], c)} IN
    IF hits = {} THEN 0 ELSE CHOOSE i \in hits : \A j \in hits : i <= j

\* the outer loop of check_collisions from coin i on; g carries the players,
\* the winner and coins_to_remove
RECURSIVE CollideFrom(_, _, _, _)
CollideFrom(cs, i, mode, g) ==
    IF i > Len(cs) THEN g
    ELSE LET k == FirstHit(g.players, cs[i]) IN
         IF k = 0 THEN CollideFrom(cs, i + 1, mode, g)
         ELSE LET ps2 == [g.players EXCEPT ![k].score = @ + 1]
                  w2 == IF mode = "sprint" /\ ps2[k].score >= SPRINT_WIN_SCORE
                        THEN ps2[k].id ELSE g.winner
              IN CollideFrom(cs, i + 1, mode,
                             [players |-> ps2, winner |-> w2,
                              coins_to_remove |-> g.coins_to_remove \cup {cs[i].id}])

\* check_collisions with the win test of line 227 applied in every mode
check_collisions_any_mode(ps, cs, mode, w) ==
    LET g == CollideFrom(cs, 1, "sprint", [players |-> ps, winner |-> w, coins_to_remove |-> {}])
    IN [players |-> g.players, winner |-> g.winner,
        coins |-> SelectSeq(cs, LAMBDA c : c.id \notin g.coins_to_remove)]

check_collisions(ps, cs, mode, w) ==
    LET g == CollideFrom(cs, 1, mode, [players |-> ps, winner |-> w, coins_to_remove |-> {}])
    IN [players |-> g.players, winner |-> g.winner,
        coins |-> SelectSeq(cs, LAMBDA c : c.id \notin g.coins_to_remove)]

\* spawn_coin without line 202
spawn_coin_same_id(g, pos) ==
    [coins |-> Append(g.coins, Coin(g.next, pos)), next |-> g.next]

\* g = [coins, next]: self.coins and self.next_coin_id
spawn_coin(g, pos) ==
    [coins |-> Append(g.coins, Coin(g.next, pos)), next |-> g.next + 1]

\* n passes of a spawning loop, pass i drawing position poss[i]; capped: the
\* len(self.coins) < MAX_COINS test of line 266
RECURSIVE SpawnLoop(_, _, _, _, _)
SpawnLoop(g, i, n, poss, capped) ==
    IF i > n THEN g
    ELSE SpawnLoop(IF capped /\ Len(g.coins) >= MAX_COINS THEN g ELSE spawn_coin(g, poss[i]),
                   i + 1, n, poss, capped)

\* SpawnScheduled without the tests of lines 263 and 266
SpawnScheduledUncapped(cs, nid, n, poss) ==
    SpawnLoop([coins |-> cs, next |-> nid], 1, n, poss, FALSE)

\* lines 262-269 without the timer
SpawnScheduled(cs, nid, n, poss) ==
    IF Len(cs) < MAX_COINS THEN SpawnLoop([coins |-> cs, next |-> nid], 1, n, poss, TRUE)
    ELSE [coins |-> cs, next |-> nid]

\* ---- the client (src/client.py) ----
Keys == {"left", "right", "up", "down"}

\* CoinCollectorClient.__init__, lines 75-99
\* InterpolatedEntity.__init__: the entity is displayed where the server put it
InterpolatedEntity(x, y) == [display_x |-> x, display_y |-> y, target_x |-> x, target_y |-> y]

\* entity: the InterpolatedEntity of the client's own player; frames: the calls
\* of update since its target was last set, up to MaxFrames; from: where it was
\* displayed then
NewClient ==
    [running |-> TRUE, connected |-> FALSE, keys |-> [k \in Keys |-> FALSE],
     last_input_sent |-> <<0, 0>>, wire |-> <<>>,
     entity |-> InterpolatedEntity(0, 0), frames |-> 0, from |-> <<0, 0>>]

\* the double nearest to v + tenths / 10, ties to the even mantissa
AddRounded(v, tenths) ==
    LET q == tenths \div 10
        r == tenths % 10
    IN v + (IF r < 5 THEN q
            ELSE IF r > 5 THEN q + 1
            ELSE IF (v + q) % 2 = 0 THEN q ELSE q + 1)

\* display + (target - display) * alpha in double arithmetic: the difference
\* is exact, its product by 0.3 is the double nearest to 3/10 of it (a half is
\* met exactly), and the sum is rounded to the grid of display
Lerp(display, target) == AddRounded(display, AlphaTenths * (target - display))

\* interpolate whose sums are rounded towards display, not to the nearest double
interpolate_truncating(e) ==
    LET towards(d, t) == IF t >= d THEN d + (AlphaTenths * (t - d)) \div 10
                         ELSE d - (AlphaTenths * (d - t)) \div 10
    IN [e EXCEPT !.display_x = towards(e.display_x, e.target_x),
                 !.display_y = towards(e.display_y, e.target_y)]

\* InterpolatedEntity.interpolate, lines 48-55
interpolate(e) ==
    [e EXCEPT !.display_x = Lerp(e.display_x, e.target_x),
              !.display_y = Lerp(e.display_y, e.target_y)]

\* InterpolatedEntity.update_server_position, lines 43-46
update_server_position(e, x, y) == [e EXCEPT !.target_x = x, !.target_y = y]

\* lines 229-240: the input vector of the keys that are down
Intent(keys) ==
    <<(IF keys["right"] THEN 1 ELSE 0) - (IF keys["left"] THEN 1 ELSE 0),
      (IF keys["down"] THEN 1 ELSE 0) - (IF keys["up"] THEN 1 ELSE 0)>>

\* send_input without the test of line 243
send_input_every_frame(cl) ==
    IF ~cl.connected THEN cl
    ELSE [cl EXCEPT !.wire = Append(@, Intent(cl.keys)),
                    !.last_input_sent = Intent(cl.keys)]

\* send_input, lines 224-250
send_input(cl) ==
    IF ~cl.connected THEN cl
    ELSE IF Intent(cl.keys) # cl.last_input_sent
    THEN [cl EXCEPT !.wire = Append(@, Intent(cl.keys)),
                    !.last_input_sent = Intent(cl.keys)]
    ELSE cl

\* ---- state of the coroutines ----
IdleConn == [pc |-> "idle", open |-> FALSE, b |-> NoBcast]

\* handle_client has returned, or an exception has ended it
DoneConn == [pc |-> "done", open |-> FALSE, b |-> NoBcast]

LoopAt(pc, b, error) == [pc |-> pc, b |-> b, error |-> error]

\* an exception that escapes game_loop ends start_server and with it the process
Running == loop.pc # "crashed"

\* ---- the observer ----
\* no coins were added yet, nobody was sent lobby_ready
NewObserver == [age |-> 0, gap |-> COIN_SPAWN_INTERVAL + 1, lobby_told |-> {}]

\* the players that the messages out tell lobby_ready
ToldLobbyReady(out) == {out[k].to : k \in {j \in 1..Len(out) : out[j].msg.type = "lobby_ready"}}

\* the observer after a step in which the time d passed, that left the players
\* ps, sent the messages out, and added coins as the initial spawn of
\* start_game ("initial"), as the scheduled spawn of a tick ("scheduled") or
\* not at all ("none")
Observed(d, ps, out, spawn) ==
    [age |-> IF spawn = "none" THEN Min2(observer.age + d, COIN_SPAWN_INTERVAL + 1) ELSE 0,
     gap |-> IF spawn = "scheduled" THEN Min2(observer.age + d, COIN_SPAWN_INTERVAL + 1)
             ELSE COIN_SPAWN_INTERVAL + 1,
     lobby_told |-> IF Len(ps) < 2 THEN {} ELSE observer.lobby_told \cup ToldLobbyReady(out)]

InitServer ==
    /\ players = <<>>
    /\ coins = <<>>
    /\ next_coin_id = 0
    /\ game_started = FALSE
    /\ game_mode = "endless"
    /\ winner = None
    /\ since_spawn = 0
    /\ player_count = 0
    /\ conn = [c \in Conns |-> IdleConn]
    /\ loop = LoopAt("sleep", NoBcast, "")
    /\ sent = <<>>
    /\ observer = NewObserver

Init == InitServer /\ client = NewClient

\* a connected client whose entity is displayed within MaxUlps of its target
InitInterp ==
    /\ InitServer
    /\ \E dx \in InterpDisplaysX, dy \in InterpDisplaysY,
          tx \in InterpTargetsX, ty \in InterpTargetsY :
          client = [NewClient EXCEPT !.connected = TRUE,
                                     !.entity = [display_x |-> dx, display_y |-> dy,
                                                 target_x |-> tx, target_y |-> ty],
                                     !.from = <<dx, dy>>]

\* ---- handle_client ----
\* what a step of handler c leaves: self.players, the coroutines, self.player_count
\* and the messages sent
HandlerStep(ps, cn, count, out) ==
    [players |-> ps, conn |-> cn, player_count |-> count, sent |-> out]

\* lines 140-145, entered with players ps, connections cn and player_count
\* count: the finally block, until broadcast_state suspends or the handler ends
Finally(c, ps, cn, count, out) ==
    LET ps2 == Delete(ps, c)
        r == RunBcast(ps2, cn,
                      NewBcast(ps2, "final_state",
                               StateUpdateMsg(ps2, coins, game_started, game_mode)), out)
    IN IF c \notin Ids(ps) THEN HandlerStep(ps, [cn EXCEPT ![c] = DoneConn], count, out)
       ELSE IF ps2 = <<>> THEN HandlerStep(ps2, [cn EXCEPT ![c] = DoneConn], count - 1, out)
       ELSE IF r.out = "suspend"
       THEN HandlerStep(ps2, [cn EXCEPT ![c].pc = "bcast", ![c].b = r.b], count - 1, r.sent)
       ELSE HandlerStep(Cleanup(ps2, r.b), [cn EXCEPT ![c] = DoneConn], count - 1, r.sent)

\* the code that follows a broadcast of handler c whose iteration went on as r:
\* start_lobby and start_game return to the async for of line 134; a RuntimeError
\* of the dict iterator is caught nowhere, the finally block runs; the
\* broadcast_state of the finally block ends the handler either way
AfterBcast(c, ps, cn, count, r) ==
    IF r.out = "suspend"
    THEN HandlerStep(ps, [cn EXCEPT ![c].pc = "bcast", ![c].b = r.b], count, r.sent)
    ELSE IF r.b.kind = "final_state"
    THEN HandlerStep(IF r.out = "stop" THEN Cleanup(ps, r.b) ELSE ps,
                     [cn EXCEPT ![c] = DoneConn], count, r.sent)
    ELSE IF r.out = "stop"
    THEN HandlerStep(Cleanup(ps, r.b), [cn EXCEPT ![c].pc = "recv", ![c].b = NoBcast],
                     count, r.sent)
    ELSE Finally(c, ps, [cn EXCEPT ![c].b = NoBcast], count, r.sent)

\* the step of a handler that leaves the game state alone
HandlerDoes(step) ==
    /\ \E h \in {step} :
          /\ players' = h.players
          /\ conn' = h.conn
          /\ player_count' = h.player_count
          /\ sent' = h.sent
          /\ observer' = Observed(0, h.players, h.sent, "none")
    /\ UNCHANGED <<client, coins, next_coin_id, game_started, game_mode, winner, since_spawn, loop>>

\* lines 103-122: a connection arrives; up to the await of simulate_latency
Connect(c, pos) ==
    /\ Running
    /\ conn[c].pc = "idle"
    /\ \A d \in Conns : d < c => conn[d].pc # "idle"
    /\ LET first == player_count = 0
           p == Player(c, IF first THEN "Alice" ELSE "Bob",
                       IF first THEN "red" ELSE "blue", pos)
       IN HandlerDoes(HandlerStep(Append(players, p),
                                  [conn EXCEPT ![c] = [pc |-> "welcome_latency",
                                                       open |-> TRUE, b |-> NoBcast]],
                                  player_count + 1, <<>>))

\* lines 123-134: the welcome, then start_lobby, up to the wait for the first
\* message; on a closed connection the send raises ConnectionClosed
Welcome(c) ==
    /\ Running
    /\ conn[c].pc = "welcome_latency"
    /\ LET w == <<[to |-> c, msg |-> WelcomeMsg(players[IndexOf(players, c)])]>> IN
       IF ~conn[c].open THEN HandlerDoes(Finally(c, players, conn, player_count, <<>>))
       ELSE IF Len(players) >= 2 /\ ~game_started
       THEN HandlerDoes(AfterBcast(c, players, conn, player_count,
                                   RunBcast(players, conn,
                                            NewBcast(players, "lobby_ready", LobbyReadyMsg), w)))
       ELSE HandlerDoes(HandlerStep(players, [conn EXCEPT ![c].pc = "recv"], player_count, w))

\* the peer closes, or the connection is lost
Disconnect(c) ==
    /\ Running
    /\ conn[c].open
    /\ conn' = [conn EXCEPT ![c].open = FALSE]
    /\ sent' = <<>>
    /\ UNCHANGED <<client, players, coins, next_coin_id, game_started, game_mode, winner,
                   since_spawn, player_count, loop, observer>>

\* line 134 on a closed connection: the async for ends (or raises
\* ConnectionClosed), the finally block runs
RecvEnd(c) ==
    /\ Running
    /\ conn[c].pc = "recv"
    /\ ~conn[c].open
    /\ HandlerDoes(Finally(c, players, conn, player_count, <<>>))

\* lines 134-136: handler c has received a message and slept the simulated
\* latency; messages queued before the connection closed are still delivered
Receives(c) ==
    /\ Running
    /\ conn[c].pc = "recv"

\* HandleInput with dx, dy added to the stored velocity
HandleInputAccumulate(c, v) ==
    /\ Receives(c)
    /\ HandlerDoes(HandlerStep([i \in 1..Len(players) |->
                                  IF players[i].id = c
                                  THEN [players[i] EXCEPT !.velocity_x = @ + v[1],
                                                          !.velocity_y = @ + v[2]]
                                  ELSE players[i]],
                               conn, player_count, <<>>))

\* lines 177-187: an input message with dx, dy = v
HandleInput(c, v) ==
    /\ Receives(c)
    /\ HandlerDoes(HandlerStep([i \in 1..Len(players) |->
                                  IF players[i].id = c
                                  THEN [players[i] EXCEPT !.velocity_x = v[1],
                                                          !.velocity_y = v[2]]
                                  ELSE players[i]],
                               conn, player_count, <<>>))

\* line 191 without the test of the number of players
CanStartAlone == ~game_started

\* line 191: the test that guards start_game
CanStart == ~game_started /\ Len(players) >= 2

\* lines 189-193 and start_game, lines 157-169, until the game_start broadcast
\* suspends or ends: a start_game message with the mode; n coins are spawned
\* at the positions poss, and no coin id beyond cap is issued
HandleStartGame(c, mode, n, poss, cap) ==
    /\ Receives(c)
    /\ IF CanStart
       THEN \E g \in {SpawnLoop([coins |-> coins, next |-> next_coin_id], 1, n, poss, FALSE)},
               h \in {AfterBcast(c, players, conn, player_count,
                                 RunBcast(players, conn,
                                          NewBcast(players, "game_start", GameStartMsg(mode)),
                                          <<>>))} :
               /\ g.next <= cap
               /\ game_mode' = mode
               /\ game_started' = TRUE
               /\ winner' = None
               /\ coins' = g.coins
               /\ next_coin_id' = g.next
               /\ players' = h.players
               /\ conn' = h.conn
               /\ sent' = h.sent
               /\ observer' = Observed(0, h.players, h.sent, "initial")
               /\ UNCHANGED <<client, since_spawn, player_count, loop>>
       ELSE HandlerDoes(HandlerStep(players, conn, player_count, <<>>))

\* line 195-196: json.loads raises JSONDecodeError, the message is dropped
HandleMalformed(c) ==
    /\ Receives(c)
    /\ HandlerDoes(HandlerStep(players, conn, player_count, <<>>))

\* lines 174-175 raise what line 195 does not catch: json.loads raises
\* UnicodeDecodeError on a binary frame that is no UTF-8, data.get raises
\* AttributeError on JSON that is no object; the exception leaves handle_message
\* and the async for, the finally block runs, the handler ends with it
HandleNotObject(c) ==
    /\ Receives(c)
    /\ HandlerDoes(Finally(c, players, conn, player_count, <<>>))

\* a broadcast of handler c resumes: the suspended send has raised
\* ConnectionClosed, the iteration goes on
BcastResume(c) ==
    /\ Running
    /\ conn[c].pc = "bcast"
    /\ HandlerDoes(AfterBcast(c, players, conn, player_count,
                              RunBcast(players, conn, conn[c].b, <<>>)))

\* ---- game_loop ----
\* what a step of game_loop leaves: self.players, the coroutine, the messages
\* sent, and whether the reset of lines 283-288 ran
LoopStep(ps, lp, out, reset) == [players |-> ps, loop |-> lp, sent |-> out, reset |-> reset]

\* AfterGameOver without lines 287-288
AfterGameOverKeepScores(ps, r) ==
    IF r.out = "suspend" THEN LoopStep(ps, LoopAt("bcast", r.b, ""), r.sent, FALSE)
    ELSE IF r.out = "error"
    THEN LoopStep(ps, LoopAt("crashed", NoBcast, "RuntimeError"), r.sent, FALSE)
    ELSE LoopStep(Cleanup(ps, r.b), LoopAt("sleep", NoBcast, ""), r.sent, TRUE)

\* the code that follows the game_over broadcast whose iteration went on as r
AfterGameOver(ps, r) ==
    IF r.out = "suspend" THEN LoopStep(ps, LoopAt("bcast", r.b, ""), r.sent, FALSE)
    ELSE IF r.out = "error"
    THEN LoopStep(ps, LoopAt("crashed", NoBcast, "RuntimeError"), r.sent, FALSE)
    ELSE LoopStep([i \in 1..Len(Cleanup(ps, r.b)) |->
                      [Cleanup(ps, r.b)[i] EXCEPT !.score = 0]],
                  LoopAt("sleep", NoBcast, ""), r.sent, TRUE)

\* lines 274-282 with players ps and winner w: self.players[self.winner] raises
\* KeyError when the winner is gone
CheckWinner(ps, cn, w, out) ==
    IF w = None THEN LoopStep(ps, LoopAt("sleep", NoBcast, ""), out, FALSE)
    ELSE IF w \notin Ids(ps) THEN LoopStep(ps, LoopAt("crashed", NoBcast, "KeyError"), out, FALSE)
    ELSE AfterGameOver(ps, RunBcast(ps, cn, NewBcast(ps, "game_over", GameOverMsg(ps, w)), out))

\* the code that follows the state_update broadcast whose iteration went on as r
AfterBroadcastState(ps, cn, w, r) ==
    IF r.out = "suspend" THEN LoopStep(ps, LoopAt("bcast", r.b, ""), r.sent, FALSE)
    ELSE IF r.out = "error"
    THEN LoopStep(ps, LoopAt("crashed", NoBcast, "RuntimeError"), r.sent, FALSE)
    ELSE CheckWinner(Cleanup(ps, r.b), cn, w, r.sent)

\* lines 290-303: broadcast_state, which returns at once when there is no player
BroadcastState(ps, cs, started, mode, cn, w) ==
    IF ps = <<>> THEN CheckWinner(ps, cn, w, <<>>)
    ELSE AfterBroadcastState(ps, cn, w,
             RunBcast(ps, cn, NewBcast(ps, "state_update", StateUpdateMsg(ps, cs, started, mode)),
                      <<>>))

\* lines 249-250 when update_position raises TypeError: the players before
\* the first one whose velocity is no number have moved
MovedUntilTypeError(ps) ==
    LET k == CHOOSE i \in 1..Len(ps) :
                ~Numeric(ps[i]) /\ \A j \in 1..(i - 1) : Numeric(ps[j])
    IN [i \in 1..Len(ps) |-> IF i < k THEN update_position(ps[i]) ELSE ps[i]]

\* lines 243-288: one tick, until a broadcast suspends or the loop sleeps again;
\* d is the time since the previous tick, n and poss the draws of the scheduled
\* spawn, and no coin id beyond cap is issued
Tick(d, n, poss, cap) ==
    /\ loop.pc = "sleep"
    /\ LET since1 == Min2(since_spawn + d, COIN_SPAWN_INTERVAL + 1) IN
       IF ~game_started
       THEN /\ since_spawn' = since1
            /\ sent' = <<>>
            /\ observer' = Observed(d, players, <<>>, "none")
            /\ UNCHANGED <<client, players, coins, next_coin_id, game_started, game_mode, winner,
                           player_count, conn, loop>>
       ELSE IF \E i \in 1..Len(players) : ~Numeric(players[i])
       THEN /\ players' = MovedUntilTypeError(players)
            /\ loop' = LoopAt("crashed", NoBcast, "TypeError")
            /\ sent' = <<>>
            /\ observer' = Observed(d, players, <<>>, "none")
            /\ UNCHANGED <<client, coins, next_coin_id, game_started, game_mode, winner,
                           since_spawn, player_count, conn>>
       ELSE \E r \in {check_collisions([i \in 1..Len(players) |-> update_position(players[i])],
                                         coins, game_mode, winner)},
               due \in {since1 > COIN_SPAWN_INTERVAL} :
            \E g \in {IF due THEN SpawnScheduled(r.coins, next_coin_id, n, poss)
                       ELSE [coins |-> r.coins, next |-> next_coin_id]} :
            \E l \in {BroadcastState(r.players, g.coins, game_started, game_mode, conn,
                                     r.winner)} :
               /\ g.next <= cap
               /\ players' = l.players
               /\ loop' = l.loop
               /\ sent' = l.sent
               /\ winner' = IF l.reset THEN None ELSE r.winner
               /\ coins' = IF l.reset THEN <<>> ELSE g.coins
               /\ game_started' = ~l.reset
               /\ next_coin_id' = g.next
               /\ since_spawn' = IF due THEN 0 ELSE since1
               /\ observer' = Observed(d, l.players, l.sent,
                                       IF g.next > next_coin_id THEN "scheduled" ELSE "none")
               /\ UNCHANGED <<client, game_mode, player_count, conn>>

\* a broadcast of game_loop resumes: the suspended send has raised
\* ConnectionClosed, the iteration goes on, then the rest of the tick
LoopResume ==
    /\ loop.pc = "bcast"
    /\ \E r \in {RunBcast(players, conn, loop.b, <<>>)} :
       \E l \in {IF loop.b.kind = "state_update"
                  THEN AfterBroadcastState(players, conn, winner, r)
                  ELSE AfterGameOver(players, r)} :
          /\ players' = l.players
          /\ loop' = l.loop
          /\ sent' = l.sent
          /\ winner' = IF l.reset THEN None ELSE winner
          /\ coins' = IF l.reset THEN <<>> ELSE coins
          /\ game_started' = IF l.reset THEN FALSE ELSE game_started
          /\ observer' = Observed(0, l.players, l.sent, "none")
    /\ UNCHANGED <<client, next_coin_id, game_mode, since_spawn, player_count, conn>>

\* the steps of the server with the connections cs, whose players are placed
\* at one of inits, whose clients send the inputs and the modes given, and
\* whose ticks are ds apart
Next(cs, inits, cap, inputs, modes, ds) ==
    \/ \E c \in cs, pos \in inits : Connect(c, pos)
    \/ \E c \in cs : Welcome(c)
    \/ \E c \in cs : Disconnect(c)
    \/ \E c \in cs : RecvEnd(c)
    \/ \E c \in cs, v \in inputs : HandleInput(c, v)
    \/ \E c \in cs, mode \in modes, n \in MIN_COINS..MAX_COINS,
          poss \in [1..MAX_COINS -> CoinPositions] : HandleStartGame(c, mode, n, poss, cap)
    \/ \E c \in cs : HandleMalformed(c)
    \/ \E c \in cs : HandleNotObject(c)
    \/ \E c \in cs : BcastResume(c)
    \/ \E d \in ds, n \in 1..2, poss \in [1..2 -> CoinPositions] : Tick(d, n, poss, cap)
    \/ LoopResume

\* connect_to_server, lines 106-107
ClientConnect ==
    /\ client.running
    /\ ~client.connected
    /\ client' = [client EXCEPT !.connected = TRUE]
    /\ UNCHANGED server_vars

\* handle_events, lines 275-303: a KEYDOWN (down = TRUE) or KEYUP event of key k
KeyEvent(k, down) ==
    /\ client.running
    /\ client' = [client EXCEPT !.keys[k] = down]
    /\ UNCHANGED server_vars

\* line 495: a frame of run calls send_input; no more than cap messages are sent
SendInput(cap) ==
    /\ client.running
    /\ Len(send_input(client).wire) <= cap
    /\ client' = send_input(client)
    /\ UNCHANGED server_vars

\* lines 122-125: the connection to the server is closed, run leaves its loop
ClientLost ==
    /\ client.connected
    /\ client' = [client EXCEPT !.connected = FALSE, !.running = FALSE]
    /\ UNCHANGED server_vars

\* update, lines 305-309: a frame of run interpolates the entity
Update ==
    /\ client.running
    /\ client' = [client EXCEPT !.entity = interpolate(client.entity),
                                !.frames = Min2(client.frames + 1, MaxFrames)]
    /\ UNCHANGED server_vars

\* update_game_state, lines 179-186: a state_update reports the player at (x, y)
UpdateGameState(x, y) ==
    /\ client.running
    /\ client.connected
    /\ client' = [client EXCEPT !.entity = update_server_position(client.entity, x, y),
                                !.frames = 0,
                                !.from = <<client.entity.display_x, client.entity.display_y>>]
    /\ UNCHANGED server_vars

\* the frames and the state updates of a connected client
NextInterp ==
    \/ Update
    \/ \E x \in InterpTargetsX, y \in InterpTargetsY : UpdateGameState(x, y)

\* the steps of the client
NextClient ==
    \/ ClientConnect
    \/ \E k \in Keys, down \in BOOLEAN : KeyEvent(k, down)
    \/ SendInput(MaxInputsSent)
    \/ ClientLost

NextPair == Next(PairConns, InitPositions, MaxCoinId, InputVectors, Modes, ClockSteps)

\* three connections, endless games, ticks that come before the spawn interval
\* has passed
NextJoin == Next(Conns, JoinPositions, MaxCoinIdJoin, InputVectors, {"endless"}, {0})

NextMove == Next(PairConns, MovePositions, MaxCoinIdMove, MoveInputs, Modes, ClockSteps)

\* two connections, games played to the end
Spec == Init /\ [][NextPair]_vars

\* three connections, the first ticks of a game
SpecJoin == Init /\ [][NextJoin]_vars

\* two connections whose players move
SpecMove == Init /\ [][NextMove]_vars

\* one client, its keys and its frames
SpecClient == Init /\ [][NextClient]_vars

\* the interpolation of the client, from every display within MaxUlps
SpecInterp == InitInterp /\ [][NextInterp]_vars

\* Spec with the scheduling of the event loop: a send that has failed wakes
\* game_loop, which then runs to its next await
SpecFair == Init /\ [][NextPair]_vars /\ WF_vars(LoopResume)

\* ---- what a step shows ----
\* a step is a tick of a started game with players: game_loop was asleep, no
\* handler moved, and a state_update was sent or is being sent
TickStep ==
    /\ loop.pc = "sleep"
    /\ game_started
    /\ players # <<>>
    /\ conn' = conn
    /\ (sent' # <<>> \/ loop'.pc # "sleep")

\* the snapshot that the tick of a TickStep broadcasts
TickSnapshot == IF sent' # <<>> THEN sent'[1].msg ELSE loop'.b.msg

\* the step is an honored start_game
StartStep == ~game_started /\ game_started'

\* the step is the reset of lines 283-288
ResetStep == game_started /\ ~game_started'

Sent(type) == {i \in 1..Len(sent) : sent[i].msg.type = type}

\* ---- C1 ----
\* C1: in every reachable state the session holds at most 2 players (a
\* connection that arrives while 2 players are present is given no Player).
AtMostTwoPlayers == Len(players) <= 2

\* ---- C2 ----
\* C2: no exception escapes game_loop, whatever the interleaving of joins,
\* disconnects, failed sends and messages with its awaits: the loop keeps ticking.
GameLoopNeverRaises == loop.pc # "crashed"

\* ---- C3 ----
\* check_collisions as the claim has it: the pass over the coins ends as soon
\* as the winner is set
RECURSIVE StopAtWinner(_, _, _, _)
StopAtWinner(cs, i, mode, g) ==
    IF i > Len(cs) \/ g.winner # None THEN g
    ELSE LET k == FirstHit(g.players, cs[i]) IN
         IF k = 0 THEN StopAtWinner(cs, i + 1, mode, g)
         ELSE LET ps2 == [g.players EXCEPT ![k].score = @ + 1]
              IN StopAtWinner(cs, i + 1, mode,
                              [players |-> ps2,
                               winner |-> IF mode = "sprint" /\ ps2[k].score >= SPRINT_WIN_SCORE
                                          THEN ps2[k].id ELSE None])

\* the winner a tick has set, read from its game_over message or from self.winner
TickWinner ==
    LET over == {i \in 1..Len(sent') : sent'[i].msg.type = "game_over"} IN
    IF over # {} THEN sent'[CHOOSE i \in over : TRUE].msg.winner ELSE winner'

\* C3: in sprint mode the winner is the first player whose score reaches
\* SPRINT_WIN_SCORE; once check_collisions has set the winner no further
\* collision is evaluated in that tick: the scores and the winner a tick
\* broadcasts are those of a pass that ends at the first winner.
NoCollisionAfterWinner ==
    [][TickStep /\ game_mode = "sprint" =>
         LET e == StopAtWinner(coins, 1, game_mode,
                               [players |-> [i \in 1..Len(players) |->
                                               update_position(players[i])],
                                winner |-> None])
         IN /\ \A i \in 1..Len(players) :
                  TickSnapshot.players[i].score = e.players[i].score
            /\ TickWinner = e.winner]_vars

\* ---- C4 ----
\* C4: a winner is set only in sprint mode and only to a player whose score
\* has reached SPRINT_WIN_SCORE, in self.winner and in every game_over message;
\* in endless mode the winner is None whatever the scores.
WinnerOnlyInSprint ==
    /\ winner # None =>
          /\ game_mode = "sprint"
          /\ \A i \in 1..Len(players) :
                players[i].id = winner => players[i].score >= SPRINT_WIN_SCORE
    /\ \A i \in Sent("game_over") :
          /\ game_mode = "sprint"
          /\ \E k \in 1..Len(sent[i].msg.scores) :
                /\ sent[i].msg.scores[k].id = sent[i].msg.winner
                /\ sent[i].msg.scores[k].score >= SPRINT_WIN_SCORE

\* a winner is set and still among the players
WinnerIsSet == winner # None /\ winner \in Ids(players)

\* ---- C5 ----
\* the messages of one step of game_loop are in the order of lines 272-282:
\* no game_over before a state_update
SnapshotBeforeGameOver ==
    \A i, j \in 1..Len(sent') :
       sent'[i].msg.type = "game_over" /\ sent'[j].msg.type = "state_update" => j < i

\* a game_over message names the winner, its name and the score of every player
GameOverCarriesScores ==
    \A i \in 1..Len(sent') :
       sent'[i].msg.type = "game_over" =>
          LET m == sent'[i].msg IN
          /\ \E k \in 1..Len(m.scores) :
                m.scores[k].id = m.winner /\ m.scores[k].name = m.winner_name
          /\ \A k \in 1..Len(players') : \E n \in 1..Len(m.scores) :
                m.scores[n].id = players'[k].id

\* the reset comes after the game_over broadcast and leaves the session
\* unstarted, without winner nor coins, every score 0
ResetAfterGameOver ==
    ResetStep =>
       /\ \/ \E i \in 1..Len(sent') : sent'[i].msg.type = "game_over"
          \/ loop.pc = "bcast" /\ loop.b.kind = "game_over"
       /\ winner' = None
       /\ coins' = <<>>
       /\ \A k \in 1..Len(players') : players'[k].score = 0

\* C5: in the tick in which a winner is set, game_loop broadcasts the state
\* snapshot, then one game_over message with the winner's id and name and the
\* final score of every player, and only then resets the session (unstarted,
\* no winner, no coin, every score 0): a winner that is set is reset by the end
\* of its tick, so a winner stays set only while a broadcast of that tick is
\* under way.
WinnerTickEndsInReset ==
    [][/\ SnapshotBeforeGameOver
       /\ GameOverCarriesScores
       /\ ResetAfterGameOver
       /\ winner' # None => loop'.pc = "bcast"]_vars

\* ---- C6 ----
\* C6 as stated: the session is never started with fewer than 2 players.
NeverStartedBelowTwo == game_started => Len(players) >= 2

\* C6, amended: the session enters the started state only with at least 2
\* players present; players who leave afterwards do not stop the game.
StartsWithTwo == [][StartStep => Len(players) >= 2 /\ Len(players') >= 2]_vars

\* a game has just been started, its players present
GameJustStarted == game_started /\ Sent("game_start") # {} /\ Len(players) >= 2

\* ---- C7 ----
\* C7: a start_game request is honored only when the session is not started
\* and exactly 2 players are present; otherwise it is ignored: mode, started
\* flag, winner, coins, next coin id and scores unchanged, no message sent.
\* Only an honored request starts the game, so every step that starts it is
\* taken with exactly 2 players present, and game_start is sent by such a step
\* only, or by its broadcast when it resumes.
StartOnlyWithExactlyTwo ==
    [][/\ StartStep => Len(players) = 2
       /\ (\E i \in 1..Len(sent') : sent'[i].msg.type = "game_start")
             => \/ StartStep
                \/ \E c \in Conns : conn[c].pc = "bcast" /\ conn[c].b.kind = "game_start"]_vars

\* ---- C8 ----
\* the game_start broadcast of an honored start_game: every message of the
\* step is game_start with the mode, sent to the players in their order; the
\* broadcast is under way at a closed connection, or has reached every player
GameStartBroadcast ==
    /\ \A i \in 1..Len(sent') :
          /\ sent'[i].msg = GameStartMsg(game_mode')
          /\ sent'[i].to = players[i].id
    /\ \/ \E c \in Conns : /\ conn'[c].pc = "bcast"
                           /\ conn'[c].b.msg = GameStartMsg(game_mode')
                           /\ ~conn[players[Len(sent') + 1].id].open
       \/ Len(sent') = Len(players)

\* C8: right after any honored start_game, the first or a later one, the
\* session is started, the coin set holds MIN_COINS..MAX_COINS coins, the
\* winner is None, every player's score is 0 and game_start with the mode of
\* the session is broadcast.
StartGamePostcondition ==
    [][StartStep =>
          /\ game_mode' \in Modes
          /\ Len(coins') \in MIN_COINS..MAX_COINS
          /\ winner' = None
          /\ \A k \in 1..Len(players') : players'[k].score = 0
          /\ GameStartBroadcast]_vars

\* a second game has just been started: the first one issued at least
\* SPRINT_WIN_SCORE coin ids
LaterGameStarted ==
    /\ game_started
    /\ Sent("game_start") # {}
    /\ next_coin_id >= SPRINT_WIN_SCORE + MIN_COINS

\* ---- C9 ----
\* the players after update_position, as the pass of check_collisions sees them
Moved == [i \in 1..Len(players) |-> update_position(players[i])]

\* the coins that player i of a tick collects: those of which it is the first
\* player within range
Collected(i) ==
    {k \in 1..Len(coins) :
        /\ InRange(Moved[i], coins[k])
        /\ \A j \in 1..(i - 1) : ~InRange(Moved[j], coins[k])}

\* C9: every collision adds exactly 1 to the score of the collecting player;
\* a coin is claimed by one player only, the first in insertion order of those
\* within range; after the pass the coin's id is not in the coin set, and never
\* comes back: the ids of the coin set are below next_coin_id, and the new
\* coins of the tick take ids from next_coin_id on.
CollisionScoresAndRemoves ==
    [][TickStep =>
          /\ \A i \in 1..Len(players) :
                TickSnapshot.players[i].score = players[i].score + Cardinality(Collected(i))
          /\ \A k \in 1..Len(coins) :
                (\E n \in 1..Len(TickSnapshot.coins) : TickSnapshot.coins[n].id = coins[k].id)
                   <=> (\A i \in 1..Len(players) : k \notin Collected(i))
          /\ \A k \in 1..Len(coins) : coins[k].id < next_coin_id
          /\ \A n \in 1..Len(TickSnapshot.coins) :
                \/ \E k \in 1..Len(coins) : coins[k].id = TickSnapshot.coins[n].id
                \/ TickSnapshot.coins[n].id >= next_coin_id]_vars

\* a tick has just given the first of two players within range the coins
BothInRangeFirstScored ==
    /\ Sent("state_update") # {}
    /\ Len(players) = 2
    /\ players[1].score > 0
    /\ players[2].score = 0
    /\ players[1].x = players[2].x
    /\ players[1].y = players[2].y

\* ---- C10 ----
\* C10: coin ids are strictly increasing in spawn order and never reused:
\* across games, resets and pickups every spawned coin gets an id greater than
\* every id issued before (the ids issued are those below next_coin_id).
CoinIdsIncrease ==
    [][/\ next_coin_id' >= next_coin_id
       /\ \A n \in 1..Len(coins') :
             /\ coins'[n].id < next_coin_id'
             /\ \/ \E k \in 1..Len(coins) : coins[k] = coins'[n]
                \/ coins'[n].id >= next_coin_id
       /\ \A m, n \in 1..Len(coins') : m < n => coins'[m].id < coins'[n].id]_vars

\* the coins of a second game, after the first one spent SPRINT_WIN_SCORE ids
CoinsOfLaterGame ==
    /\ coins # <<>>
    /\ \A k \in 1..Len(coins) : coins[k].id >= SPRINT_WIN_SCORE

\* ---- C11 ----
\* C11: the coin set never holds more than MAX_COINS coins, across the spawns
\* of start_game, the scheduled spawns, the pickups and repeated games.
CoinsAtMostMax == Len(coins) <= MAX_COINS

\* the coin set is full after coins were picked up or spawned on schedule
CoinSetRefilled == Len(coins) = MAX_COINS /\ next_coin_id > MAX_COINS

\* ---- C12 ----
\* C12: in every reachable state every player is within the arena less half a
\* hit box on each side: PLAYER_SIZE/2 <= x <= SCREEN_WIDTH - PLAYER_SIZE/2
\* and PLAYER_SIZE/2 <= y <= SCREEN_HEIGHT - PLAYER_SIZE/2, from the placement
\* on and after every tick, for every stored velocity.
PlayersInArena ==
    \A i \in 1..Len(players) :
       /\ PLAYER_SIZE <= 2 * players[i].x
       /\ 2 * players[i].x <= 2 * SCREEN_WIDTH - PLAYER_SIZE
       /\ PLAYER_SIZE <= 2 * players[i].y
       /\ 2 * players[i].y <= 2 * SCREEN_HEIGHT - PLAYER_SIZE

\* a tick has stopped at two walls a player whose velocity leads beyond them
StoppedAtTheWalls ==
    \E i \in 1..Len(players) :
       /\ players[i].velocity_x < -1
       /\ players[i].velocity_y > 1
       /\ 2 * players[i].x = PLAYER_SIZE
       /\ 2 * players[i].y = 2 * SCREEN_HEIGHT - PLAYER_SIZE

\* ---- C17 ----
\* the stored velocity of player p
Velocity(p) == <<p.velocity_x, p.velocity_y>>

\* the step changes the stored velocity of a player
VelocityStep ==
    \E i \in 1..Len(players), j \in 1..Len(players') :
       players'[j].id = players[i].id /\ Velocity(players'[j]) # Velocity(players[i])

\* C17: an input message is accepted in every state of the session; it
\* replaces the stored velocity of its sender by its (dx, dy), never adds to
\* it, and changes nothing else; while the session is not started no player's
\* position changes, whatever the stored velocities.
InputReplacesVelocity ==
    [][/\ VelocityStep =>
             /\ Len(players') = Len(players)
             /\ \E i \in 1..Len(players) :
                   /\ Velocity(players'[i]) \in MoveInputs
                   /\ players'[i] = [players[i] EXCEPT !.velocity_x = players'[i].velocity_x,
                                                       !.velocity_y = players'[i].velocity_y]
                   /\ \A j \in 1..Len(players) : j # i => players'[j] = players[j]
             /\ UNCHANGED <<coins, next_coin_id, game_started, game_mode, winner,
                            since_spawn, player_count, conn, loop>>
       /\ ~game_started =>
             \A i \in 1..Len(players), j \in 1..Len(players') :
                players'[j].id = players[i].id =>
                   players'[j].x = players[i].x /\ players'[j].y = players[i].y]_vars

\* inputs of two players were stored while the session was not started
InputStoredInLobby ==
    /\ ~game_started
    /\ \E i, j \in 1..Len(players) :
          /\ players[i].velocity_x = -1 /\ players[i].velocity_y = 1
          /\ players[j].velocity_x = -200 /\ players[j].velocity_y = 200

\* ---- C18 ----
\* C18: the stored velocity components of every player are in {-1, 0, 1} in
\* every reachable state, whatever dx and dy arrive in input messages.
VelocityIsUnit ==
    \A i \in 1..Len(players) :
       /\ players[i].velocity_x \in {-1, 0, 1}
       /\ players[i].velocity_y \in {-1, 0, 1}

\* ---- C19 ----
\* C19: a malformed inbound message is discarded: the session state is
\* unchanged, its sender stays connected and among the players, and its later
\* messages are processed.  So no step taken while handler c waits for a
\* message on an open connection ends the handler, enters its finally block or
\* removes player c.
MalformedKeepsHandler ==
    [][\A c \in Conns :
          conn[c].pc = "recv" /\ conn[c].open =>
             /\ conn'[c].pc \in {"recv", "bcast"}
             /\ conn'[c].pc = "bcast" => conn'[c].b.kind # "final_state"
             /\ c \in Ids(players) => c \in Ids(players')]_vars

\* ---- C13 ----
\* the broadcast b, suspended in a failed send, resumes in this step and is
\* left as b2 (NoBcast when it is over): every player whose connection is
\* open and who has not been sent the message is sent it, or is still to be
\* served by the broadcast, suspended in another failed send
ResumedBcastServes(b, b2) ==
    \A i \in 1..Len(players) :
       conn[players[i].id].open /\ players[i].id \notin b.seen =>
          \/ \E k \in 1..Len(sent') : sent'[k] = [to |-> players[i].id, msg |-> b.msg]
          \/ b2.msg = b.msg /\ b2.seen # b.seen /\ players[i].id \notin b2.seen

\* C13: when the send of a broadcast to one player fails because the
\* connection closed, the failure is caught and the same message is still
\* delivered to every other connected player; a disconnect that happens while
\* a broadcast is under way neither blocks nor aborts it.
BroadcastSurvivesClosedPeer ==
    [][/\ loop.pc = "bcast" /\ loop' # loop => ResumedBcastServes(loop.b, loop'.b)
       /\ \A c \in Conns :
             conn[c].pc = "bcast" /\ (conn'[c].pc # "bcast" \/ conn'[c].b # conn[c].b)
                => ResumedBcastServes(conn[c].b, conn'[c].b)]_vars

\* ---- C15 ----
\* the step accepts a connection: a player is appended to self.players
JoinStep == Len(players') = Len(players) + 1

\* the player that a JoinStep has appended
Joined == players'[Len(players')]

\* C15: identity follows join order: the player accepted into an empty session
\* is named Alice and is red, the player accepted into a session of one player
\* is named Bob and is blue, after any history of joins, disconnects and
\* removals after failed sends.
IdentityFollowsJoinOrder ==
    [][JoinStep =>
          /\ Len(players) = 0 => Joined.name = "Alice" /\ Joined.color = "red"
          /\ Len(players) = 1 => Joined.name = "Bob" /\ Joined.color = "blue"]_vars

\* ---- C16 ----
\* the step removes a player from self.players
RemovalStep == Ids(players) \ Ids(players') # {}

\* the state_update that broadcast_state builds from the state after the step
StateAfterStep == StateUpdateMsg(players', coins', game_started', game_mode')

\* every remaining player with an open connection is sent the state after the
\* step, or is still to be served by a broadcast of it
RemainingAreToldState ==
    \A i \in 1..Len(players') :
       conn'[players'[i].id].open =>
          \/ \E k \in 1..Len(sent') : sent'[k] = [to |-> players'[i].id, msg |-> StateAfterStep]
          \/ \E c \in Conns : /\ conn'[c].pc = "bcast"
                              /\ conn'[c].b.msg = StateAfterStep
                              /\ players'[i].id \notin conn'[c].b.seen

\* C16: when a player disconnects it is removed from the session at once and
\* a state_update that omits it is broadcast to the remaining players; the
\* removal leaves the score and position of every remaining player, the coin
\* set, the started flag, the mode and the winner unchanged.
RemovalBroadcastsState ==
    [][RemovalStep =>
          /\ RemainingAreToldState
          /\ ~ResetStep =>
                /\ \A i \in 1..Len(players') : \E j \in 1..Len(players) : players'[i] = players[j]
                /\ UNCHANGED <<coins, game_started, game_mode, winner>>]_vars

\* ---- C14 ----
\* C14: no send stalls the tick loop for ever: a send that does not complete
\* is treated as a disconnect, so under fair scheduling every tick that is
\* suspended in a send finishes, and game_loop sleeps until its next tick.
SuspendedTickFinishes == (loop.pc = "bcast") ~> (loop.pc = "sleep")

\* ---- C20 ----
\* C20: the client sends input on change only: send_input emits a message
\* only when the (dx, dy) of the keys differs from the last one sent, so no two
\* consecutive input messages of a client carry the same (dx, dy), the first
\* message is never (0, 0), and every dx and dy sent is in {-1, 0, 1}.
InputIsEdgeTriggered ==
    /\ \A i \in 1..Len(client.wire) :
          /\ client.wire[i][1] \in {-1, 0, 1}
          /\ client.wire[i][2] \in {-1, 0, 1}
          /\ i > 1 => client.wire[i] # client.wire[i - 1]
    /\ client.wire # <<>> => client.wire[1] # <<0, 0>>
    /\ client.last_input_sent = IF client.wire = <<>> THEN <<0, 0>>
                                ELSE client.wire[Len(client.wire)]

\* the client has sent a move, the stop that follows it, and the same move
\* again; its keys have not changed since
MoveStopMove ==
    /\ Len(client.wire) >= 3
    /\ client.wire[2] = <<0, 0>>
    /\ client.wire[1] = client.wire[3]
    /\ Intent(client.keys) = client.last_input_sent

\* ---- C27 ----
\* C27: two players that are connected at the same time never share a name or
\* a color: after any sequence of joins and leaves, the player accepted into a
\* session of one player carries a name and a color that differ from those of
\* the player already connected.
DistinctIdentities ==
    [][JoinStep /\ Len(players) = 1 /\ player_count = 1 =>
          /\ Joined.name # players[1].name
          /\ Joined.color # players[1].color]_vars

\* ---- C26 ----
\* the step sends message k of sent' to a player whose handler has not sent
\* the welcome yet, and no welcome to that player precedes it in the step
BeforeWelcome(k) ==
    /\ conn[sent'[k].to].pc = "welcome_latency"
    /\ \A j \in 1..(k - 1) : sent'[j].to = sent'[k].to => sent'[j].msg.type # "welcome"

\* C26: on every connection the welcome is the first message the client
\* receives: no lobby_ready, game_start, state_update or game_over is sent to
\* a player before that player's welcome, under any interleaving of another
\* handler's broadcast or a tick with the joining handler's latency wait.
WelcomeIsFirst ==
    [][\A k \in 1..Len(sent') : BeforeWelcome(k) => sent'[k].msg.type = "welcome"]_vars

\* ---- C22 ----
\* a coordinate v advanced by the velocity dv and kept within the arena of
\* extent size
Advanced(v, dv, size) ==
    Max2(PLAYER_SIZE \div 2, Min2(size - PLAYER_SIZE \div 2, v + dv * PLAYER_SPEED))

\* a tick of a started game that ran its pass over the shared state to the end
TickPassStep == TickStep /\ loop'.error = ""

\* C22: the tick's pass over the shared state is atomic with respect to the
\* connection handlers: no input, join, disconnect or start_game is applied
\* between the first position update and the end of the spawn step, so the
\* snapshot of a tick shows the players of the tick's start, each advanced on
\* both axes by the one velocity it had stored at the tick's start, and the
\* stored velocities, the mode and the connections are those of the tick's start.
TickPassIsAtomic ==
    [][TickPassStep =>
          /\ Len(TickSnapshot.players) = Len(players)
          /\ \A i \in 1..Len(players) :
                /\ TickSnapshot.players[i].id = players[i].id
                /\ TickSnapshot.players[i].x
                      = Advanced(players[i].x, players[i].velocity_x, SCREEN_WIDTH)
                /\ TickSnapshot.players[i].y
                      = Advanced(players[i].y, players[i].velocity_y, SCREEN_HEIGHT)
          /\ \A j \in 1..Len(players') : \E i \in 1..Len(players) :
                /\ players'[j].id = players[i].id
                /\ Velocity(players'[j]) = Velocity(players[i])
          /\ TickSnapshot.mode = game_mode
          /\ UNCHANGED <<game_mode, player_count, conn>>]_vars

\* a tick has moved a player on both axes and its state_update shows it
MovedOnBothAxes ==
    /\ loop.pc = "sleep"
    /\ game_started
    /\ \E i \in 1..Len(players), k \in Sent("state_update") :
          /\ Velocity(players[i]) = <<-1, 1>>
          /\ players[i].x = 25 /\ players[i].y = 375
          /\ sent[k].msg.players[i].x = 25 /\ sent[k].msg.players[i].y = 375

\* ---- C23 ----
\* every state_update that the step sends, and the one that game_loop is left
\* sending, is the message m
TickSends(m) ==
    /\ \A k \in 1..Len(sent') : sent'[k].msg.type = "state_update" => sent'[k].msg = m
    /\ loop'.pc = "bcast" /\ loop'.b.kind = "state_update" => loop'.b.msg = m

\* game_loop goes on with the state_update broadcast in which it was suspended
TickResumeStep == loop.pc = "bcast" /\ loop.b.kind = "state_update" /\ loop' # loop

\* C23: each tick's snapshot is built after all of the tick's mutations and is
\* one consistent view: every player who receives the tick's state_update
\* receives the identical player list, coin list, started flag and mode, equal
\* to the server state at the end of the tick's mutation pass, even if the
\* server state changes while the broadcast is still sending.
OneSnapshotPerTick ==
    [][/\ TickPassStep =>
             /\ TickSends(TickSnapshot)
             /\ TickSnapshot.type = "state_update"
             /\ TickSnapshot.game_started /\ TickSnapshot.mode = game_mode
             /\ ~ResetStep /\ Len(players') = Len(players) =>
                   /\ TickSnapshot.coins = coins'
                   /\ \A i \in 1..Len(players) :
                         TickSnapshot.players[i]
                            = [id |-> players'[i].id, name |-> players'[i].name,
                               x |-> players'[i].x, y |-> players'[i].y,
                               score |-> players'[i].score, color |-> players'[i].color]
       /\ TickResumeStep => TickSends(loop.b.msg)]_vars

\* game_loop has resumed a state_update broadcast and sent a snapshot taken
\* before the players of the session changed
SentOlderSnapshot ==
    /\ loop.error = "RuntimeError"
    /\ \E k \in Sent("state_update") :
          /\ sent[k].msg.game_started
          /\ {sent[k].msg.players[i].id : i \in 1..Len(sent[k].msg.players)} # Ids(players)
          /\ sent[k].to \in Ids(players)

\* ---- C24 ----
\* the scheduled spawn of a tick adds coins
SpawnTickStep == loop.pc = "sleep" /\ game_started /\ next_coin_id' > next_coin_id

\* what a scheduled spawn does when it adds coins: 1 or 2 of them, to a coin
\* set that was below MAX_COINS, and the spawn timer is reset
SpawnAddsOneOrTwo ==
    [][SpawnTickStep =>
          /\ next_coin_id' - next_coin_id \in 1..2
          /\ ~ResetStep => Len(coins') <= MAX_COINS
          /\ since_spawn' = 0]_vars

\* C24: the spawn scheduler adds coins in a tick only when more than
\* COIN_SPAWN_INTERVAL has elapsed since coins were last added, the initial
\* spawn of start_game included, and the coin count is below MAX_COINS; it
\* then adds 1 or 2 coins and resets the spawn timer.
SpawnOnlyAfterInterval ==
    [][SpawnTickStep =>
          /\ observer'.gap > COIN_SPAWN_INTERVAL
          /\ next_coin_id' - next_coin_id \in 1..2
          /\ ~ResetStep => Len(coins') <= MAX_COINS
          /\ since_spawn' = 0]_vars

\* ---- C25 ----
\* C25: the lobby precedes play: every game start is preceded by a lobby_ready
\* that was sent to each of the players present at that game start since the
\* session last had fewer than 2 players; the session never goes from waiting
\* for the second player to playing without passing through lobby-ready.
LobbyPrecedesPlay ==
    [][StartStep => \A i \in 1..Len(players) : players[i].id \in observer.lobby_told]_vars

\* ---- C21 ----
Abs(v) == IF v < 0 THEN 0 - v ELSE v

\* the distances between display and target of entity e on the two axes, in
\* units in the last place, and the square of the distance between the two points
DistX(e) == Abs(e.target_x - e.display_x)

DistY(e) == Abs(e.target_y - e.display_y)

Dist2(e) == DistX(e) * DistX(e) + DistY(e) * DistY(e)

\* the step is a call of update that is counted: the target is unchanged
UpdateStep == client'.frames = client.frames + 1

\* where the entity was displayed when its target was last set
EntityFrom == [client.entity EXCEPT !.display_x = client.from[1], !.display_y = client.from[2]]

====
